---- MODULE Spec2Model ----
(***************************************************************************)
(* Model of src/src/sdl2/gfx/primitives.rs: the ToColor conversions, the   *)
(* DrawRenderer implementation for Canvas<T> (one foreign call per          *)
(* primitive, status interpreted as Result<(), Error>) and the two global  *)
(* font setters.                                                           *)
(*                                                                         *)
(* Number representation.  TLC integers are 32-bit signed, so a u32 is a   *)
(* 4-byte sequence and an isize an 8-byte two's complement sequence, both  *)
(* most significant byte first: 0xFF0000FF is <<255, 0, 0, 255>>.          *)
(***************************************************************************)
EXTENDS Integers, Sequences, FiniteSets, TLC

(***************************************************************************)
(* The records of the model.                                               *)
(***************************************************************************)
\* a colour argument: the ToColor impl it goes through, and its value
ColorType == [form : {"Color", "tuple", "u32", "isize", "none"}, v : Seq(Int)]

\* a call of this module and its arguments
CallType == [op : STRING, args : Seq(Int), color : ColorType \cup {<<>>},
             vx : Seq(Int), vy : Seq(Int), text : Seq(Int), fontdata : STRING]

\* a step of a call
StepType == [ev : STRING, fn : STRING, argv : Seq(Int), ptrs : Seq(Seq(Int) \cup STRING),
             cstr : Seq(Int), packed : Seq(Int), ret : Int, error : STRING]

\* how a call ended, what a native drawing function did, the native font, a
\* stand-alone conversion
OutcomeType == [kind : {"Ok", "Err", "Panic", "Unit"}, msg : STRING]
NativeResultType == [ret : Int, msg : STRING]
FontType == [fontdata : STRING, cw : Int, ch : Int]
ConvType == [input : ColorType, ok : BOOLEAN, rgba : Seq(Int), u32 : Seq(Int)]

VARIABLES
    order,      \* build parameter: order[i] is the position (1 = most significant
                \* byte) that field i of a (u8,u8,u8,u8) takes in the u32 a
                \* mem::transmute produces (tuple layout and target endianness)
    font,       \* native global font: [fontdata, cw, ch]
    rotation,   \* native global font rotation
    lastError,  \* native last-error string (what the last-error query returns)
    call,       \* the most recent call of this module: operation and arguments
    trace,      \* the steps that call took, in program order
    outcome,    \* how that call ended: Ok, Err(msg), Panic(msg), or Unit
    nCalls,     \* history: drawing primitive calls completed
    nDraw,      \* history: native drawing calls issued
    nFailFast,  \* history: drawing primitive calls that panicked
    conv        \* result of the most recent stand-alone ToColor conversion

vars == <<order, font, rotation, lastError, call, trace, outcome,
          nCalls, nDraw, nFailFast, conv>>

(***************************************************************************)
(* Bounds of the exploration.                                              *)
(***************************************************************************)
MaxCalls == 2       \* drawing primitive calls per behaviour
MaxLen == 3         \* longest point buffer

(***************************************************************************)
(* Values.                                                                 *)
(***************************************************************************)
Byte == 0..255
NULL == "NULL"
NoColor == <<>>
NoBufs == <<>>
NoText == <<>>

Zero4 == <<0, 0, 0, 0>>

\* the isize whose value is the u32 w (upper 32 bits clear)
IsizeOfWord(w) == Zero4 \o w

\* the orderings a build can give mem::transmute between (u8,u8,u8,u8) and u32
Orders == {p \in [1..4 -> 1..4] : \A i, j \in 1..4 : p[i] = p[j] => i = j}

\* transmute::<(u8,u8,u8,u8), u32>
TupleToU32(o, t) == [k \in 1..4 |-> t[CHOOSE i \in 1..4 : o[i] = k]]

\* bug: the u32 is read as big-endian bytes in declaration order on every build
U32ToTuple_FixedOrder(o, w) == w

\* transmute::<u32, (u8,u8,u8,u8)>
U32ToTuple(o, w) == [i \in 1..4 |-> w[o[i]]]

\* pixels::Color { r, g, b, a }, a struct, is the sequence of its fields
\* pixels::Color::rgba
rgba(c) == <<c[1], c[2], c[3], c[4]>>

\* bug: a truncating cast (`*self as u32`) in place of the checked conversion
to_u32_some_Truncating(v) == TRUE

\* num::ToPrimitive::to_u32 on an isize: Some(v) exactly when 0 <= v <= u32::MAX
to_u32_some(v) == \A k \in 1..4 : v[k] = 0
to_u32_val(v) == SubSeq(v, 5, 8)

\* A colour argument: [form, v] with form one of the four ToColor impls.
ColorObj(r, g, b, a) == [form |-> "Color", v |-> <<r, g, b, a>>]
ColorTuple(t) == [form |-> "tuple", v |-> t]
ColorU32(w) == [form |-> "u32", v |-> w]
ColorIsize(v) == [form |-> "isize", v |-> v]

\* whether the conversion of c returns (FALSE: the expect() in the isize impl panics)
ColorConverts(c) == c.form = "isize" => to_u32_some(c.v)

\* ToColor::as_rgba, per impl
as_rgba(o, c) ==
    CASE c.form = "Color" -> rgba(c.v)
      [] c.form = "tuple" -> c.v
      [] c.form = "u32"   -> U32ToTuple(o, c.v)
      [] c.form = "isize" -> U32ToTuple(o, to_u32_val(c.v))

\* ToColor::as_u32, per impl (pixels::Color uses the trait's default method)
as_u32(o, c) ==
    CASE c.form = "Color" -> TupleToU32(o, as_rgba(o, c))
      [] c.form = "tuple" -> TupleToU32(o, c.v)
      [] c.form = "u32"   -> c.v
      [] c.form = "isize" -> to_u32_val(c.v)

(***************************************************************************)
(* Inputs explored.  A domain D names the argument values a specification  *)
(* draws from: D.i16 coordinates, radii and angles, D.colors, D.bufs       *)
(* point buffer pairs, D.texts, D.chars, and D.results, what the native    *)
(* drawing functions may do.                                               *)
(***************************************************************************)
MinusOne == <<255, 255, 255, 255, 255, 255, 255, 255>>     \* isize -1
TwoTo32 == <<0, 0, 0, 1, 0, 0, 0, 0>>                      \* isize 2^32
Red == <<255, 0, 0, 255>>
MaxWord == <<255, 255, 255, 255>>                          \* u32::MAX

\* point buffers: Buf(n) has n vertices
Buf(n) == [i \in 1..n |-> (5 * i) % 16]
Bufs == {Buf(n) : n \in (MaxLen - 1)..MaxLen}

\* what a native drawing function can do: return a status and, when it fails,
\* leave a message in the last-error register
NativeOk == [ret |-> 0, msg |-> ""]
NativeFails == {[ret |-> s, msg |-> m] : s \in {-1, 1}, m \in {"e1", "e2"}}

\* the drawing operations in depth: all colour forms, the isize range boundaries,
\* coordinates on and far off the surface, every native result, point buffers of
\* equal and of different lengths, "Hi" and "H\0i", the characters 'A', U+00E9,
\* U+0141 (congruent to 'A' modulo 256) and char::MAX, U+10FFFF
DrawDom ==
    [i16     |-> {10, -32768},
     colors  |-> {ColorObj(255, 0, 0, 255), ColorTuple(Red), ColorU32(Red),
                  ColorIsize(IsizeOfWord(Red)), ColorIsize(IsizeOfWord(MaxWord)),
                  ColorIsize(MinusOne), ColorIsize(TwoTo32)},
     bufs    |-> Bufs \X Bufs,
     texts   |-> {<<72, 105>>, <<72, 0, 105>>},
     chars   |-> {65, 233, 321, 1114111},
     results |-> {NativeOk} \cup NativeFails]

\* the whole program in breadth: one colour that converts and one that does not,
\* a native success and a native failure
LeanDom ==
    [i16     |-> {10},
     colors  |-> {ColorTuple(Red), ColorIsize(MinusOne)},
     bufs    |-> {<<Buf(MaxLen), Buf(MaxLen)>>},
     texts   |-> {<<72, 105>>},
     chars   |-> {65},
     results |-> {NativeOk, [ret |-> -1, msg |-> "e1"]}]

\* k coordinates, and the (coordinates, colour) pairs explored: every colour at
\* the first coordinates, every coordinates with the tuple colour
Coords(D, k) == {[i \in 1..k |-> v] : v \in D.i16}
DrawArgs(D, k) == {ac \in Coords(D, k) \X D.colors : ac[1][1] = 10 \/ ac[2] = ColorTuple(Red)}

(***************************************************************************)
(* Steps of a call, as recorded in trace.                                  *)
(***************************************************************************)
\* ev the step and fn the foreign function; argv the integer arguments, ptrs the
\* buffers pointed to, cstr the NUL-terminated text and packed the colour of a
\* foreign call; ret the status it returned; error the string the last-error
\* query returned
Step(ev, fn, args, bufs, text, color, ret, msg) ==
    [ev |-> ev, fn |-> fn, argv |-> args, ptrs |-> bufs, cstr |-> text, packed |-> color,
     ret |-> ret, error |-> msg]

StepAssertLen(vx, vy) ==
    Step("assert_eq", "", <<Len(vx), Len(vy)>>, NoBufs, NoText, NoColor, 0, "")
StepCString(s) == Step("CString::new", "", <<>>, NoBufs, s, NoColor, 0, "")
StepAsU32 == Step("as_u32", "", <<>>, NoBufs, NoText, NoColor, 0, "")
StepFfi(fn, args, bufs, text, color, ret) == Step("ffi", fn, args, bufs, text, color, ret, "")
StepGetError(register) ==
    Step("get_error", "SDL_GetError", <<>>, NoBufs, NoText, NoColor, 0, register)
\* the CString owning the bytes cstr goes out of scope and frees them
StepDrop(cstr) == Step("drop", "", <<>>, NoBufs, cstr, NoColor, 0, "")

None == "None"

\* a call of this module: fontdata is set_font's Option<&[u8]>, None elsewhere
Call(op, args, color, vx, vy, text) ==
    [op |-> op, args |-> args, color |-> color, vx |-> vx, vy |-> vy, text |-> text,
     fontdata |-> None]

Ok == [kind |-> "Ok", msg |-> ""]
Panic(msg) == [kind |-> "Panic", msg |-> msg]
Unit == [kind |-> "Unit", msg |-> ""]

\* crate::get_error_as_error: the Error built from the last-error register
get_error_as_error(register) == [kind |-> "Err", msg |-> register]

\* bug: the text is not checked for an embedded NUL
CString_new_ok_Unchecked(s) == TRUE

\* bug: the bytes are passed without the terminating NUL
CString_new_NoTerminator(s) == s

\* std::ffi::CString::new(s): Err(NulError) if s holds a 0 byte, else s plus one NUL
CString_new_ok(s) == \A i \in 1..Len(s) : s[i] # 0
CString_new(s) == s \o <<0>>

\* vx.len() as c_int, s as c_int (lengths and i32 values explored fit a c_int)
as_c_int(n) == n

\* bug: a code point too large for a c_char is clamped to the largest one
as_c_char_Saturating(c) == IF c > 255 THEN 255 ELSE c

\* c as c_char: the low 8 bits of the code point, given as the bit pattern 0..255
\* of the c_char (an i8 on some targets, a u8 on others)
as_c_char(c) == c % 256

FontFns == {"gfxPrimitivesSetFont", "gfxPrimitivesSetFontRotation"}
IsDrawStep(e) == e.ev = "ffi" /\ e.fn \notin FontFns
DrawSteps(tr) == Cardinality({i \in 1..Len(tr) : IsDrawStep(tr[i])})

\* bug: the temporary is leaked (mem::forget, into_raw) and its bytes stay allocated
EndOfUnsafeBlock_Leaks(cstring) == <<>>

\* the `};` closing the unsafe block of a primitive, and the unwinding of a panic
\* inside it: the locals of the block are dropped.  cstring, the `let` of string, is
\* the only local that owns memory (NoText in the primitives that have none); the
\* pointers to the caller's buffers are plain argument values.
EndOfUnsafeBlock(cstring) == IF cstring = NoText THEN <<>> ELSE <<StepDrop(cstring)>>

(***************************************************************************)
(* The drawing primitives.                                                 *)
(***************************************************************************)
\* bug: a drawing primitive resets the native font on its way out
Ends_ResetsFont(c, tr, out, register) ==
    /\ nCalls < MaxCalls
    /\ call' = c
    /\ trace' = tr
    /\ outcome' = out
    /\ lastError' = register
    /\ nCalls' = nCalls + 1
    /\ nDraw' = nDraw + DrawSteps(tr)
    /\ nFailFast' = nFailFast + (IF out.kind = "Panic" THEN 1 ELSE 0)
    /\ font' = [fontdata |-> NULL, cw |-> 8, ch |-> 8]
    /\ UNCHANGED <<order, rotation, conv>>

\* a drawing primitive call ends: c the call, tr its steps, out its outcome,
\* register the native last-error string it leaves
Ends(c, tr, out, register) ==
    /\ nCalls < MaxCalls
    /\ call' = c
    /\ trace' = tr
    /\ outcome' = out
    /\ lastError' = register
    /\ nCalls' = nCalls + 1
    /\ nDraw' = nDraw + DrawSteps(tr)
    /\ nFailFast' = nFailFast + (IF out.kind = "Panic" THEN 1 ELSE 0)
    /\ UNCHANGED <<order, font, rotation, conv>>

\* bug: only a negative status is taken as a failure
Interpret_NegativeOnly(c, tr, ret, register) ==
    IF ret >= 0
    THEN Ends(c, tr, Ok, register)
    ELSE Ends(c, tr \o <<StepGetError(register)>>, get_error_as_error(register), register)

\* bug: a failed native call is issued a second time
Interpret_Retry(c, tr, ret, register) ==
    IF ret = 0
    THEN Ends(c, tr, Ok, register)
    ELSE Ends(c, tr \o SelectSeq(tr, IsDrawStep) \o <<StepGetError(register)>>,
              get_error_as_error(register), register)

\* `if ret == 0 { Ok(()) } else { Err(get_error_as_error()) }`: ret the status
\* the native call returned, register the last-error string it left
Interpret(c, tr, ret, register) ==
    IF ret = 0
    THEN Ends(c, tr, Ok, register)
    ELSE Ends(c, tr \o <<StepGetError(register)>>, get_error_as_error(register), register)

\* `let ret = unsafe { primitives::fn(self.raw(), args.., color.as_u32()) };` and
\* the interpretation of ret.  pre: the steps taken before the arguments are built.
\* The native call is the tail expression of the unsafe block, so the locals of
\* the block are dropped after it returns and before ret is looked at; a panic in
\* color.as_u32() drops them while it unwinds.
ForeignDraw(D, c, pre, fn, args, bufs, text) ==
    IF ~ColorConverts(c.color)
    THEN Ends(c, pre \o <<StepAsU32>> \o EndOfUnsafeBlock(text),
              Panic("Can't convert to Color Type"), lastError)
    ELSE \E r \in D.results :
            Interpret(c,
                      pre \o <<StepAsU32,
                               StepFfi(fn, args, bufs, text, as_u32(order, c.color), r.ret)>>
                          \o EndOfUnsafeBlock(text),
                      r.ret,
                      IF r.ret = 0 THEN lastError ELSE r.msg)

\* a primitive of k i16 arguments, passed to the native function as they are
Simple(D, op, fn, k) ==
    \E ac \in DrawArgs(D, k) :
        ForeignDraw(D, Call(op, ac[1], ac[2], <<>>, <<>>, NoText), <<>>, fn, ac[1], NoBufs, NoText)

pixel(D) == Simple(D, "pixel", "pixelColor", 2)
hline(D) == Simple(D, "hline", "hlineColor", 3)
vline(D) == Simple(D, "vline", "vlineColor", 3)
rectangle(D) == Simple(D, "rectangle", "rectangleColor", 4)
rounded_rectangle(D) == Simple(D, "rounded_rectangle", "roundedRectangleColor", 5)
box_(D) == Simple(D, "box_", "boxColor", 4)
rounded_box(D) == Simple(D, "rounded_box", "roundedBoxColor", 5)
line(D) == Simple(D, "line", "lineColor", 4)
aa_line(D) == Simple(D, "aa_line", "aalineColor", 4)
\* width: u8 follows the four coordinates
thick_line(D) ==
    \E ac \in DrawArgs(D, 4), width \in {255} :
        ForeignDraw(D, Call("thick_line", ac[1] \o <<width>>, ac[2], <<>>, <<>>, NoText), <<>>,
                    "thickLineColor", ac[1] \o <<width>>, NoBufs, NoText)
circle(D) == Simple(D, "circle", "circleColor", 3)
aa_circle(D) == Simple(D, "aa_circle", "aacircleColor", 3)
filled_circle(D) == Simple(D, "filled_circle", "filledCircleColor", 3)
arc(D) == Simple(D, "arc", "arcColor", 5)
ellipse(D) == Simple(D, "ellipse", "ellipseColor", 4)
aa_ellipse(D) == Simple(D, "aa_ellipse", "aaellipseColor", 4)
filled_ellipse(D) == Simple(D, "filled_ellipse", "filledEllipseColor", 4)
pie(D) == Simple(D, "pie", "pieColor", 5)
filled_pie(D) == Simple(D, "filled_pie", "filledPieColor", 5)
trigon(D) == Simple(D, "trigon", "trigonColor", 6)
aa_trigon(D) == Simple(D, "aa_trigon", "aatrigonColor", 6)
filled_trigon(D) == Simple(D, "filled_trigon", "filledTrigonColor", 6)

\* bug: the colour is converted before the lengths are compared
PointBufferDraw_ColourFirst(D, op, fn, vx, vy, extra, color) ==
    LET c == Call(op, extra, color, vx, vy, NoText) IN
    IF ~ColorConverts(color)
    THEN Ends(c, <<StepAsU32>>, Panic("Can't convert to Color Type"), lastError)
    ELSE IF Len(vx) # Len(vy)
         THEN Ends(c, <<StepAsU32, StepAssertLen(vx, vy)>>,
                   Panic("assertion failed: (left == right)"), lastError)
         ELSE ForeignDraw(D, c, <<StepAssertLen(vx, vy)>>, fn,
                          <<as_c_int(Len(vx))>> \o extra, <<vx, vy>>, NoText)

\* `assert_eq!(vx.len(), vy.len()); let n = vx.len() as c_int;` then the native call
\* on (vx.as_ptr(), vy.as_ptr(), n, extra.., color.as_u32())
PointBufferDraw(D, op, fn, vx, vy, extra, color) ==
    LET c == Call(op, extra, color, vx, vy, NoText) IN
    IF Len(vx) # Len(vy)
    THEN Ends(c, <<StepAssertLen(vx, vy)>>,
              Panic("assertion failed: (left == right)"), lastError)
    ELSE ForeignDraw(D, c, <<StepAssertLen(vx, vy)>>, fn,
                     <<as_c_int(Len(vx))>> \o extra, <<vx, vy>>, NoText)

polygon(D) ==
    \E v \in D.bufs, color \in D.colors :
        PointBufferDraw(D, "polygon", "polygonColor", v[1], v[2], <<>>, color)
aa_polygon(D) ==
    \E v \in D.bufs, color \in D.colors :
        PointBufferDraw(D, "aa_polygon", "aapolygonColor", v[1], v[2], <<>>, color)
filled_polygon(D) ==
    \E v \in D.bufs, color \in D.colors :
        PointBufferDraw(D, "filled_polygon", "filledPolygonColor", v[1], v[2], <<>>, color)
bezier(D) ==
    \E v \in D.bufs, s \in {2}, color \in D.colors :
        PointBufferDraw(D, "bezier", "bezierColor", v[1], v[2], <<as_c_int(s)>>, color)

\* bug: an empty body that reports success
textured_polygon_SilentOk(D) ==
    \E v \in D.bufs, d \in Coords(D, 2), color \in D.colors :
        Ends(Call("textured_polygon", d, color, v[1], v[2], NoText), <<>>, Ok, lastError)

\* unimplemented!()
textured_polygon(D) ==
    \E v \in D.bufs, d \in Coords(D, 2), color \in D.colors :
        Ends(Call("textured_polygon", d, color, v[1], v[2], NoText), <<>>,
             Panic("not implemented"), lastError)

character(D) ==
    \E ac \in DrawArgs(D, 2), ch \in D.chars :
        ForeignDraw(D, Call("character", ac[1] \o <<ch>>, ac[2], <<>>, <<>>, NoText), <<>>,
                    "characterColor", ac[1] \o <<as_c_char(ch)>>, NoBufs, NoText)

\* `let cstring = CString::new(s).unwrap();` then the native call on its bytes
string(D) ==
    \E ac \in DrawArgs(D, 2), s \in D.texts :
        LET c == Call("string", ac[1], ac[2], <<>>, <<>>, s) IN
        IF ~CString_new_ok(s)
        THEN Ends(c, <<StepCString(s)>>,
                  Panic("called Result::unwrap() on an Err value: NulError"), lastError)
        ELSE ForeignDraw(D, c, <<StepCString(s)>>, "stringColor", ac[1], NoBufs, CString_new(s))

\* the drawing primitives of DrawRenderer
Draw(D) ==
    \/ pixel(D) \/ hline(D) \/ vline(D) \/ rectangle(D) \/ rounded_rectangle(D)
    \/ box_(D) \/ rounded_box(D) \/ line(D) \/ aa_line(D) \/ thick_line(D)
    \/ circle(D) \/ aa_circle(D) \/ filled_circle(D) \/ arc(D) \/ ellipse(D)
    \/ aa_ellipse(D) \/ filled_ellipse(D) \/ pie(D) \/ filled_pie(D)
    \/ trigon(D) \/ aa_trigon(D) \/ filled_trigon(D)
    \/ polygon(D) \/ aa_polygon(D) \/ filled_polygon(D) \/ textured_polygon(D)
    \/ bezier(D) \/ character(D) \/ string(D)

(***************************************************************************)
(* The global font state.                                                  *)
(***************************************************************************)
FontDatas == {None, "font1"}      \* Option<&[u8]>: None, or Some(bitmap of the caller)
CellSizes == {8, 16}
Rotations == {0, 1, 2, 3, 4, 2147483647}

\* the native library's font globals after gfxPrimitivesSetFont(fontdata, cw, ch)
gfxPrimitivesSetFont(fontdata, cw, ch) == [fontdata |-> fontdata, cw |-> cw, ch |-> ch]

\* the pointer set_font passes: ptr::null() for None, v.as_ptr() for Some(v)
actual_fontdata(fontdata) == IF fontdata = None THEN NULL ELSE fontdata

set_font ==
    \E fontdata \in FontDatas, cw, ch \in CellSizes :
        /\ font' = gfxPrimitivesSetFont(actual_fontdata(fontdata), cw, ch)
        /\ call' = [Call("set_font", <<cw, ch>>, NoColor, <<>>, <<>>, NoText)
                        EXCEPT !.fontdata = fontdata]
        /\ trace' = <<StepFfi("gfxPrimitivesSetFont", <<cw, ch>>,
                              <<actual_fontdata(fontdata)>>, NoText, NoColor, 0)>>
        /\ outcome' = Unit
        /\ UNCHANGED <<order, rotation, lastError, nCalls, nDraw, nFailFast, conv>>

\* bug: the rotation is reduced to the steps 0..3
rotation_as_u32_Clamped(rot) == rot % 4

\* `rotation as u32`, on a u32
rotation_as_u32(rot) == rot

set_font_rotation ==
    \E rot \in Rotations :
        /\ rotation' = rotation_as_u32(rot)
        /\ call' = Call("set_font_rotation", <<rot>>, NoColor, <<>>, <<>>, NoText)
        /\ trace' = <<StepFfi("gfxPrimitivesSetFontRotation", <<rotation_as_u32(rot)>>,
                              NoBufs, NoText, NoColor, 0)>>
        /\ outcome' = Unit
        /\ UNCHANGED <<order, font, lastError, nCalls, nDraw, nFailFast, conv>>

(***************************************************************************)
(* Specifications.                                                         *)
(***************************************************************************)
NoCall == Call("none", <<>>, NoColor, <<>>, <<>>, NoText)
NoConv == [input |-> [form |-> "none", v |-> <<>>], ok |-> TRUE, rgba |-> <<>>, u32 |-> <<>>]

\* declaration-order layout of the tuple on a little- and on a big-endian target
LittleEndian == <<4, 3, 2, 1>>
BigEndian == <<1, 2, 3, 4>>

InitOver(O) ==
    /\ order \in O
    /\ font = [fontdata |-> NULL, cw |-> 8, ch |-> 8]
    /\ rotation = 0
    /\ lastError = ""
    /\ call = NoCall
    /\ trace = <<>>
    /\ outcome = Unit
    /\ nCalls = 0
    /\ nDraw = 0
    /\ nFailFast = 0
    /\ conv = NoConv

\* the whole program: every drawing primitive and both font setters
Init == InitOver({LittleEndian, BigEndian})
Next == Draw(LeanDom) \/ set_font \/ set_font_rotation
Spec == Init /\ [][Next]_vars

\* the drawing primitives over the wide domain
NextDraw == Draw(DrawDom)
SpecDraw == Init /\ [][NextDraw]_vars

(***************************************************************************)
(* The ToColor conversions on their own, under every ordering a build can  *)
(* give the transmute.                                                     *)
(***************************************************************************)
ByteSamples == {0, 127, 255}
Words == [1..4 -> ByteSamples]
Isizes == {IsizeOfWord(w) : w \in Words} \cup
          {MinusOne, TwoTo32,
           <<128, 0, 0, 0, 0, 0, 0, 0>>,                   \* isize::MIN
           <<127, 255, 255, 255, 255, 255, 255, 255>>,     \* isize::MAX
           <<255, 255, 255, 255, 0, 0, 0, 0>>}             \* -2^32

\* c.as_rgba() and c.as_u32(); ok is FALSE when they panic
Convert(c) ==
    /\ conv' = [input |-> c,
                ok    |-> ColorConverts(c),
                rgba  |-> IF ColorConverts(c) THEN as_rgba(order, c) ELSE <<>>,
                u32   |-> IF ColorConverts(c) THEN as_u32(order, c) ELSE <<>>]
    /\ UNCHANGED <<order, font, rotation, lastError, call, trace, outcome,
                   nCalls, nDraw, nFailFast>>

ConvertColor == \E t \in Words : Convert(ColorObj(t[1], t[2], t[3], t[4]))
ConvertTuple == \E t \in Words : Convert(ColorTuple(t))
ConvertU32 == \E w \in Words : Convert(ColorU32(w))
ConvertIsize == \E v \in Isizes : Convert(ColorIsize(v))

InitColor == InitOver(Orders)
NextColor == ConvertColor \/ ConvertTuple \/ ConvertU32 \/ ConvertIsize
SpecColor == InitColor /\ [][NextColor]_vars

(***************************************************************************)
(* Properties.                                                             *)
(***************************************************************************)
DrawOps ==
    {"pixel", "hline", "vline", "rectangle", "rounded_rectangle", "box_", "rounded_box",
     "line", "aa_line", "thick_line", "circle", "aa_circle", "filled_circle", "arc",
     "ellipse", "aa_ellipse", "filled_ellipse", "pie", "filled_pie", "trigon",
     "aa_trigon", "filled_trigon", "polygon", "aa_polygon", "filled_polygon",
     "textured_polygon", "bezier", "character", "string"}
PointBufferOps == {"polygon", "aa_polygon", "filled_polygon", "bezier"}

LengthsDiffer(c) == Len(c.vx) # Len(c.vy)
HasNul(s) == \E i \in 1..Len(s) : s[i] = 0
\* 0 <= v <= 2^32 - 1, for a 64-bit two's complement v
IsizeInU32Range(v) == v[1] = 0 /\ v[2] = 0 /\ v[3] = 0 /\ v[4] = 0
LowWord(v) == <<v[5], v[6], v[7], v[8]>>
AssertPanic == Panic("assertion failed: (left == right)")
ColorPanic == Panic("Can't convert to Color Type")
NulPanic == Panic("called Result::unwrap() on an Err value: NulError")
\* the steps of a call other than the releases of its own temporary
NotDrop(e) == e.ev # "drop"
Work(tr) == SelectSeq(tr, NotDrop)

\* C1: polygon, aa_polygon, filled_polygon and bezier compare the buffer lengths
\* first, before the colour is converted and before the native call; when the
\* lengths differ the call panics on that assertion and nothing else happens: no
\* colour conversion, no foreign call.
C1_LengthCheckFirst ==
    call.op \in PointBufferOps =>
        /\ Len(trace) >= 1
        /\ trace[1] = StepAssertLen(call.vx, call.vy)
        /\ LengthsDiffer(call) =>
              /\ outcome = AssertPanic
              /\ Len(trace) = 1
              /\ DrawSteps(trace) = 0

\* a polygon of 3 x-values and 2 y-values, with a colour that would not convert
\* either, has panicked
C1_Witness ==
    /\ call.op = "polygon"
    /\ Len(call.vx) = 3
    /\ Len(call.vy) = 2
    /\ call.color = ColorIsize(MinusOne)
    /\ outcome = AssertPanic

\* C2: a primitive that reached its native drawing call returns Ok(()) exactly
\* when that call returned 0, whatever the arguments; on any other status the
\* last-error query is the very next step, the last one, and the call returns Err
\* with the string the query returned, which is the native last-error string.
\* (Steps are counted without the release of string's temporary, which is no
\* foreign call.)
C2_StatusDecidesResult ==
    LET w == Work(trace) IN
    \A i \in 1..Len(w) :
        IsDrawStep(w[i]) =>
            /\ (w[i].ret = 0) <=> (outcome = Ok)
            /\ w[i].ret = 0 => i = Len(w)
            /\ w[i].ret # 0 =>
                  /\ Len(w) = i + 1
                  /\ w[i + 1].ev = "get_error"
                  /\ trace[Len(trace)] = w[i + 1]
                  /\ outcome = [kind |-> "Err", msg |-> w[i + 1].error]
                  /\ outcome.msg = lastError

\* a pixel far off the surface whose native call returned 1 gave Err("e2")
C2_Witness ==
    /\ call.op = "pixel"
    /\ call.args = <<-32768, -32768>>
    /\ \E i \in 1..Len(trace) : IsDrawStep(trace[i]) /\ trace[i].ret = 1
    /\ outcome = [kind |-> "Err", msg |-> "e2"]

\* C3: for a pixels::Color, a channel tuple and a packed u32, packing the tuple
\* as_rgba() returns gives exactly what as_u32() returns, in each of the three
\* forms; unpacking as_u32() gives back as_rgba(); the conversions lose nothing
\* of the input; and channel i always lands in byte order[i] of the packed value.
C3_ColorFormsAgree ==
    conv.input.form \in {"Color", "tuple", "u32"} =>
        /\ conv.ok
        /\ as_u32(order, ColorTuple(conv.rgba)) = conv.u32
        /\ as_u32(order, ColorObj(conv.rgba[1], conv.rgba[2], conv.rgba[3], conv.rgba[4]))
              = conv.u32
        /\ as_u32(order, ColorU32(conv.u32)) = conv.u32
        /\ as_rgba(order, ColorU32(conv.u32)) = conv.rgba
        /\ as_rgba(order, ColorTuple(conv.rgba)) = conv.rgba
        /\ \A i \in 1..4 : conv.u32[order[i]] = conv.rgba[i]
        /\ conv.input.form = "u32" => conv.u32 = conv.input.v
        /\ conv.input.form \in {"Color", "tuple"} => conv.rgba = conv.input.v

\* on a little-endian build the u32 0xFF00007F has been unpacked to (127, 0, 0, 255)
C3_Witness ==
    /\ order = LittleEndian
    /\ conv.input = ColorU32(<<255, 0, 0, 127>>)
    /\ conv.rgba = <<127, 0, 0, 255>>

\* C4: textured_polygon, whatever its arguments, ends in the "not implemented"
\* panic of unimplemented!(): it never returns Ok(()) and takes no step at all,
\* so no foreign call.
C4_TexturedPolygonUnimplemented ==
    call.op = "textured_polygon" =>
        /\ outcome = Panic("not implemented")
        /\ trace = <<>>

\* textured_polygon was called with buffers of different lengths
C4_Witness ==
    /\ call.op = "textured_polygon"
    /\ LengthsDiffer(call)
    /\ outcome.kind = "Panic"

\* C5 as claimed: with point buffers of equal lengths every primitive returns a
\* Result.
C5_OnlyLengthsPanic ==
    (call.op \in DrawOps /\ ~LengthsDiffer(call)) => outcome.kind \in {"Ok", "Err"}

\* the inputs on which a drawing primitive panics
PanicCase(c) ==
    \/ c.op = "textured_polygon"
    \/ c.op \in PointBufferOps /\ LengthsDiffer(c)
    \/ c.op = "string" /\ HasNul(c.text)
    \/ c.color.form = "isize" /\ ~IsizeInU32Range(c.color.v)

\* C5, amended: a drawing primitive panics exactly on point buffers of different
\* lengths, in textured_polygon, on a string with an embedded NUL byte, and on an
\* isize colour outside 0..2^32-1; on every other input it returns Ok or Err.
C5_PanicsExactly ==
    call.op \in DrawOps =>
        /\ outcome.kind \in {"Ok", "Err", "Panic"}
        /\ (outcome.kind = "Panic") <=> PanicCase(call)

\* a bezier over buffers of equal lengths has panicked on its colour
C5_Witness ==
    /\ call.op = "bezier"
    /\ ~LengthsDiffer(call)
    /\ call.color = ColorIsize(MinusOne)
    /\ outcome.kind = "Panic"

\* C6: a drawing primitive issues exactly one native drawing call when it does
\* not panic, a failed one included, and none when it panics; so the native
\* drawing calls issued are the calls made minus those that panicked.
C6_OneDrawPerCall ==
    /\ nDraw = nCalls - nFailFast
    /\ call.op \in DrawOps =>
          DrawSteps(trace) = (IF outcome.kind = "Panic" THEN 0 ELSE 1)

\* two calls were made: one panicked, the last one failed in the native library
C6_Witness ==
    /\ nCalls = 2
    /\ nFailFast = 1
    /\ nDraw = 1
    /\ outcome.kind = "Err"

\* C7: the native font is changed by the font setters only: a drawing primitive,
\* whether it succeeds, fails or panics, leaves bitmap, cell size and rotation as
\* they are, so every later text draw finds what the last set_font left; set_font
\* leaves exactly its arguments, the default (NULL) bitmap when none is given, and
\* does not touch the rotation; set_font_rotation does not touch the font.
C7_FontPersists ==
    [][/\ call'.op \in DrawOps => (font' = font /\ rotation' = rotation)
       /\ call'.op = "set_font" =>
             /\ rotation' = rotation
             /\ font' = [fontdata |-> IF call'.fontdata = None THEN NULL ELSE call'.fontdata,
                         cw |-> call'.args[1], ch |-> call'.args[2]]
       /\ call'.op = "set_font_rotation" => font' = font]_vars

\* the second of two drawing calls, a string, drew with the custom font set before
C7_Witness ==
    /\ call.op = "string"
    /\ outcome = Ok
    /\ nCalls = 2
    /\ font = [fontdata |-> "font1", cw |-> 16, ch |-> 8]
    /\ rotation = 3

\* C8: set_font_rotation issues one native call with the rotation it was given,
\* whatever the value, and set_font one native call with cw and ch as given and a
\* null pointer exactly when no bitmap is given; neither reports a result.
C8_FontSettersPassThrough ==
    /\ call.op = "set_font_rotation" =>
          /\ Len(trace) = 1
          /\ trace[1].ev = "ffi"
          /\ trace[1].fn = "gfxPrimitivesSetFontRotation"
          /\ trace[1].argv = call.args
          /\ rotation = call.args[1]
          /\ outcome = Unit
    /\ call.op = "set_font" =>
          /\ Len(trace) = 1
          /\ trace[1].ev = "ffi"
          /\ trace[1].fn = "gfxPrimitivesSetFont"
          /\ trace[1].argv = call.args
          /\ (trace[1].ptrs = <<NULL>>) <=> (call.fontdata = None)
          /\ call.fontdata # None => trace[1].ptrs = <<call.fontdata>>
          /\ outcome = Unit

\* a rotation far outside 0..3 was passed on as it is
C8_Witness ==
    /\ call.op = "set_font_rotation"
    /\ call.args = <<2147483647>>
    /\ rotation = 2147483647

\* C9: string hands the native call the bytes of its text followed by one NUL
\* when the text holds no NUL byte; a text with an embedded NUL always ends in
\* the NulError panic right at the conversion, before any foreign call.
C9_StringNulTerminated ==
    call.op = "string" =>
        IF HasNul(call.text)
        THEN /\ outcome = NulPanic
             /\ trace = <<StepCString(call.text)>>
        ELSE /\ trace[1] = StepCString(call.text)
             /\ outcome.kind \in {"Ok", "Err"} => DrawSteps(trace) = 1
             /\ \A i \in 1..Len(trace) :
                   trace[i].ev = "ffi" =>
                       /\ trace[i].fn = "stringColor"
                       /\ trace[i].cstr = call.text \o <<0>>

\* "H\0i" was rejected a second time
C9_Witness ==
    /\ call.op = "string"
    /\ call.text = <<72, 0, 105>>
    /\ outcome = NulPanic
    /\ nFailFast = 2

\* the call got as far as converting its colour
ColourReached(c) ==
    /\ c.op # "textured_polygon"
    /\ ~(c.op \in PointBufferOps /\ LengthsDiffer(c))
    /\ ~(c.op = "string" /\ HasNul(c.text))

\* C10: an isize colour v with 0 <= v <= 2^32-1 reaches the native call as v, the
\* same value the packed-u32 form of v gives; any other v panics in the
\* conversion, and the primitive issues no foreign call.
C10_IsizeColour ==
    (call.op \in DrawOps /\ call.color.form = "isize" /\ ColourReached(call)) =>
        IF IsizeInU32Range(call.color.v)
        THEN /\ DrawSteps(trace) = 1
             /\ \A i \in 1..Len(trace) :
                   IsDrawStep(trace[i]) =>
                       /\ trace[i].packed = LowWord(call.color.v)
                       /\ trace[i].packed = as_u32(order, ColorU32(LowWord(call.color.v)))
        ELSE /\ outcome = ColorPanic
             /\ Work(trace)[Len(Work(trace))] = StepAsU32
             /\ \A i \in 1..Len(trace) : trace[i].ev # "ffi"

\* a pixel whose colour is the isize 2^32 has panicked
C10_Witness ==
    /\ call.op = "pixel"
    /\ call.color = ColorIsize(TwoTo32)
    /\ outcome = ColorPanic

\* the temporaries a call created and has not released by the end of tr
Live(tr) ==
    {j \in 1..Len(tr) :
        /\ tr[j].ev = "CString::new"
        /\ CString_new_ok(tr[j].cstr)
        /\ ~\E k \in (j + 1)..Len(tr) :
               tr[k].ev = "drop" /\ tr[k].cstr = CString_new(tr[j].cstr)}

\* step i of tr is a native call on the bytes of a temporary that was created
\* before the call, is released after it has returned, and not in between
AliveThroughCall(tr, i) ==
    \E j \in 1..(i - 1), k \in (i + 1)..Len(tr) :
        /\ tr[j].ev = "CString::new"
        /\ CString_new(tr[j].cstr) = tr[i].cstr
        /\ tr[k] = StepDrop(tr[i].cstr)
        /\ \A m \in j..i : tr[m].ev # "drop"

\* C11: between two calls nothing of a drawing primitive's buffers is held: the
\* pointers to the caller's point arrays occur only as arguments of the one native
\* drawing call, the only memory a primitive owns is string's NUL-terminated copy,
\* that copy is created before the native call, stays allocated until the call
\* has returned and is released before the primitive returns, on every outcome.
C11_NoPointerRetained ==
    call.op \in DrawOps =>
        /\ Live(trace) = {}
        /\ DrawSteps(trace) <= 1
        /\ \A i \in 1..Len(trace) :
              /\ trace[i].ptrs # NoBufs =>
                    /\ IsDrawStep(trace[i])
                    /\ trace[i].ptrs = <<call.vx, call.vy>>
              /\ trace[i].cstr # NoText =>
                    /\ call.op = "string"
                    /\ trace[i].ev \in {"CString::new", "ffi", "drop"}
              /\ (trace[i].ev = "ffi" /\ trace[i].cstr # NoText) => AliveThroughCall(trace, i)
              /\ trace[i].ev = "drop" =>
                    \E j \in 1..(i - 1) :
                        /\ trace[j].ev = "CString::new"
                        /\ CString_new(trace[j].cstr) = trace[i].cstr
        /\ call.op \in PointBufferOps /\ outcome.kind \in {"Ok", "Err"} =>
              \E i \in 1..Len(trace) : trace[i].ptrs = <<call.vx, call.vy>>

\* a string whose native call failed: the copy "Hi\0" was passed, released after
\* the call, and then the error was read
C11_Witness ==
    /\ call.op = "string"
    /\ call.text = <<72, 105>>
    /\ outcome.kind = "Err"
    /\ Len(trace) = 5
    /\ trace[3].ev = "ffi"
    /\ trace[3].cstr = <<72, 105, 0>>
    /\ trace[4] = StepDrop(<<72, 105, 0>>)
    /\ trace[5].ev = "get_error"

\* c1 and c2 differ by a multiple of 256; b is the byte congruent to c
Congruent(c1, c2) ==
    LET d == IF c1 >= c2 THEN c1 - c2 ELSE c2 - c1 IN d = 256 * (d \div 256)
LowByteOf(b, c) == b \in 0..255 /\ Congruent(b, c)

\* C12: character passes its character as one 8-bit value, the code point modulo
\* 2^8: a code point below 256 as it is, any character congruent to it modulo 256
\* as the same value; the code point is never the reason for a panic or an Err,
\* which come from the colour and from the native status only.
C12_CharacterLowByte ==
    call.op = "character" =>
        /\ (outcome.kind = "Panic") <=> ~ColorConverts(call.color)
        /\ outcome.kind # "Panic" =>
              /\ DrawSteps(trace) = 1
              /\ trace[2].fn = "characterColor"
              /\ (outcome = Ok) <=> (trace[2].ret = 0)
        /\ \A i \in 1..Len(trace) :
              IsDrawStep(trace[i]) =>
                  /\ Len(trace[i].argv) = 3
                  /\ trace[i].argv[1] = call.args[1]
                  /\ trace[i].argv[2] = call.args[2]
                  /\ LowByteOf(trace[i].argv[3], call.args[3])
                  /\ call.args[3] < 256 => trace[i].argv[3] = call.args[3]
                  /\ \A c2 \in DrawDom.chars :
                        Congruent(c2, call.args[3]) => as_c_char(c2) = trace[i].argv[3]

\* U+0141 was drawn as the byte 65, the byte of 'A'
C12_Witness ==
    /\ call.op = "character"
    /\ call.args[3] = 321
    /\ outcome = Ok
    /\ trace[2].argv[3] = 65

====
